---- MODULE Spec2Model ----
(***************************************************************************)
(* Server-side batch collection of cryptopulse (app/api.py, app/db.py,     *)
(* app/ingestor.py): the process-wide BATCH_STATE record, the HTTP         *)
(* handlers ingest_batch / batch_status / batch_stop / batch_reset, the    *)
(* background loop _run_batch (one daemon thread per accepted start) and   *)
(* the price store behind upsert_price.                                    *)
(*                                                                         *)
(* _BS_LOCK names the holder of the lock.  A `with _BS_LOCK:` block that   *)
(* writes BATCH_STATE (_set, batch_stop, batch_reset) is several steps     *)
(* with the lock held in between: each store is a step, and so is the call *)
(* of _now_iso() whose value a later store writes (now holds it            *)
(* meanwhile).  Whoever takes the lock waits; the clock, and whoever reads *)
(* or writes without the lock, do not.  A block that only reads is one     *)
(* step.  What the source does with no lock held is a step of its          *)
(* own: the creation of the thread in ingest_batch, the evaluation of      *)
(* started_at, the fetch, the upsert, the read of BATCH_STATE["done"] that *)
(* forms the argument of _set, the sleep, and the building of the response *)
(* of stop and reset.  A handler's response is an operator of the state in *)
(* which the handler reads it.  Time is the process clock in whole seconds *)
(* (_now_iso has second precision).                                        *)
(***************************************************************************)
EXTENDS Integers, FiniteSets, Sequences, TLC

\* ---------------------------------------------------------------- bounds
MaxLoops == 2        \* background threads that may be spawned in a behaviour
MaxCount == 2        \* iterations asked of a run
MaxClock == 1        \* last second the process clock reaches
MaxCalls == 1        \* stop and reset requests in progress at a time

Threads == 1..MaxLoops
Counts  == {MaxCount}               \* the count passed to /ingest_batch
DelayScale == 2                      \* a float delay is kept in 1/DelayScale s
Delays  == {3}                       \* 1.5 s (route accepts 1.0..600.0)
Quotes  == {100}                     \* what fetch_btc_price may return
Prices  == {100, 200}                \* prices passed to upsert_price directly
DbUrls  == {"postgresql", "sqlite"}  \* the two branches of upsert_price
DbFaults == {"none", "connect", "execute"}

None == -1           \* Python None in a numeric / timestamp field
NoError == "None"    \* Python None in last_error
Free == 0            \* _BS_LOCK held by nobody (a thread holds it under its own number)
Stopper == MaxLoops + 1              \* _BS_LOCK held by the batch_stop request
Resetter == MaxLoops + 2             \* _BS_LOCK held by the batch_reset request
Failure == "Exception: failure"      \* f"{type(e).__name__}: {e}" of an iteration

VARIABLES
  BATCH_STATE,   \* the RunState record (api.py:276)
  _BS_LOCK,      \* threading.Lock (api.py:286): its holder, Free when released
  now,           \* what _now_iso() returned to the holder of the lock and is
                 \* not yet stored (api.py:293, 359, 379); None otherwise
  prices,        \* table prices: set of rows [ts_utc, price_usd], key ts_utc
  DB_URL,        \* which backend the process was configured with
  clock,         \* process clock, whole seconds
  th,            \* per background thread: position and locals of _run_batch
                 \* (and of the ingest_batch request that creates it)
  stopPc,        \* batch_stop in flight: "idle", "locked" (between its two
                 \* writes) or "unlocked" (lock released, response not yet built)
  resetPc,       \* batch_reset in flight: "idle", "locked" (clock read, record
                 \* not yet written) or "unlocked"
  call,          \* the last direct call of upsert_price and its outcome
  hist           \* history (observation only, never read by the program)

vars == <<BATCH_STATE, _BS_LOCK, now, prices, DB_URL, clock, th, stopPc, resetPc, call, hist>>


\* ---------------------------------------------------------------- helpers
\* api.py:96  _now_iso(): the clock, second precision
_now_iso == clock

\* `with _BS_LOCK:` (api.py:306, 330, 343) around a block that only reads:
\* the block is one step, which acquires the free lock and has released it
\* when it ends
with_BS_LOCK == _BS_LOCK = Free /\ _BS_LOCK' = Free

\* api.py:276  the all-default RunState
BATCH_STATE_default ==
  [running |-> FALSE, done |-> 0, fail |-> 0, target |-> 0, delay |-> None,
   started_at |-> None, updated_at |-> None, last_error |-> NoError]

\* api.py:292  _set, first statement: BATCH_STATE.update(kw).  kw is a function
\* from field names to values.
_set_update(state, kw) ==
  [f \in DOMAIN state |-> IF f \in DOMAIN kw THEN kw[f] ELSE state[f]]

\* api.py:293  _set, second statement: BATCH_STATE["updated_at"] = the value
\* that _now_iso() returned
_set_stamp(state) == [state EXCEPT !.updated_at = now]

\* api.py:100  _normalize_fetch_output(d) for the float that fetch_btc_price
\* returns: the timestamp is generated here, from the process clock.
_normalize_fetch_output(d) == [ts_utc |-> _now_iso, price_usd |-> d]

HasKey(store, ts) == \E r \in store : r.ts_utc = ts

\* upsert_price as REPLACE INTO would behave: a conflicting row is overwritten
upsert_price_replace(store, ts_iso, price, fault) ==
  IF fault # "none" /\ ~(DB_URL = "sqlite" /\ fault = "execute")
    THEN [store |-> store, raised |-> TRUE]
    ELSE [store |-> {r \in store : r.ts_utc # ts_iso}
                      \cup {[ts_utc |-> ts_iso, price_usd |-> price]},
          raised |-> FALSE]

\* db.py:33  upsert_price(ts_iso, price).  fault is what the database does to
\* this call: "connect" = engine.begin() raises, "execute" = the INSERT
\* raises something other than a key conflict, "none" = neither.
\* Result: the table afterwards and whether the call raised.
upsert_price(store, ts_iso, price, fault) ==
  IF fault = "connect"
    THEN [store |-> store, raised |-> TRUE]
  ELSE IF DB_URL = "postgresql"
    THEN IF fault = "execute"
           THEN [store |-> store, raised |-> TRUE]
           ELSE [store |-> IF HasKey(store, ts_iso) THEN store   \* DO NOTHING
                           ELSE store \cup {[ts_utc |-> ts_iso, price_usd |-> price]},
                 raised |-> FALSE]
  ELSE \* SQLite: plain INSERT, every exception of the INSERT is swallowed
       IF fault = "execute" \/ HasKey(store, ts_iso)
           THEN [store |-> store, raised |-> FALSE]
           ELSE [store |-> store \cup {[ts_utc |-> ts_iso, price_usd |-> price]},
                 raised |-> FALSE]

\* ---------------------------------------------------------------- threads
\* One slot per _run_batch thread: the position and locals of the thread, and
\* before the thread exists the position of the ingest_batch request that is
\* about to create it (pc = "starting": the request has read running = False
\* and released the lock, api.py:330-332, and has not yet reached api.py:333).
\* A local is put back to its initial value once the code no longer reads it.
ThreadInit ==
  [pc |-> "unused", n |-> 0, delay |-> None, started_at |-> None, i |-> 0,
   rd |-> 0, p |-> [ts_utc |-> None, price_usd |-> 0], err |-> NoError]

Alive(t) == th[t].pc \notin {"unused", "starting", "exited"}
AliveLoops == {t \in Threads : Alive(t)}
Unused == {t \in Threads : th[t].pc = "unused"}
Starting == {t \in Threads : th[t].pc = "starting"}

\* the slot taken last (0 before the first start)
Newest == IF Unused = Threads THEN 0
          ELSE CHOOSE t \in Threads \ Unused : \A u \in Threads \ Unused : u <= t

\* history: what was called and what happened, for stating the properties
HistInit ==
  [last  |-> "none",        \* the last start/stop/reset call: "started", "rejected"
                            \* (start answered already_running), "stop", "reset";
                            \* "raced" when a start that had passed its check
                            \* created its thread after another call was made
   reset |-> "no",          \* a reset has written BATCH_STATE and no status was answered
                            \* since it returned: "quiet" if at the reset no loop thread
                            \* existed and no start request was in progress, and no
                            \* start was called since; "loops" otherwise
   oks   |-> 0,             \* while last = "started": iterations of the thread it
                            \* spawned whose try block completed
   bad   |-> [t \in Threads |-> FALSE]]  \* t's iteration in flight had a fetch or
                                         \* database failure; kept until it is counted

\* no direct call of upsert_price was made
NoCall == [ts |-> None, price |-> 0, fault |-> "none", dup |-> FALSE, raised |-> FALSE]

Init ==
  /\ BATCH_STATE = BATCH_STATE_default
  /\ _BS_LOCK = Free
  /\ now = None
  /\ prices = {}
  /\ DB_URL \in DbUrls
  /\ clock = 0
  /\ th = [t \in Threads |-> ThreadInit]
  /\ stopPc = "idle"
  /\ resetPc = "idle"
  /\ call = NoCall
  /\ hist = HistInit

\* the process clock advances
Tick ==
  /\ clock < MaxClock
  /\ clock' = clock + 1
  /\ UNCHANGED <<_BS_LOCK, BATCH_STATE, prices, DB_URL, th, stopPc, resetPc, call, hist, now>>

\* ---------------------------------------------------------------- handlers
\* api.py:332  what POST /ingest_batch returns when it finds running set: built
\* inside the locked block
ingest_batch_already_running == [status |-> "already_running", state |-> BATCH_STATE]

\* api.py:334  what POST /ingest_batch returns after it has started thread t:
\* built with no lock held from the request's arguments and the clock, in
\* whatever state the request reaches this line (any state from the step
\* ingest_batch_start(t) on: the thread may have run, the clock advanced)
ingest_batch_started(t) ==
  [status |-> "started",
   state |-> [target |-> th[t].n, delay |-> th[t].delay, started_at |-> _now_iso]]

\* the locked block of ingest_batch without the running guard
ingest_batch_unguarded(count, delay) ==
  /\ Unused # {}
  /\ LET t == CHOOSE u \in Unused : \A v \in Unused : u <= v IN
       /\ th' = [th EXCEPT ![t] = [ThreadInit EXCEPT
                    !.pc = "starting", !.n = count, !.delay = delay]]
       /\ hist' = [hist EXCEPT !.last = "started", !.oks = 0,
                               !.reset = IF @ = "quiet" THEN "loops" ELSE @]
  /\ with_BS_LOCK
  /\ UNCHANGED <<BATCH_STATE, prices, DB_URL, clock, stopPc, resetPc, call, now>>

\* api.py:330-332  POST /ingest_batch, the locked block: running is read; when
\* it is set the request returns ingest_batch_already_running from inside the
\* block, otherwise it leaves the block and goes on to api.py:333
ingest_batch(count, delay) ==
  /\ IF BATCH_STATE.running
       THEN /\ th' = th
            /\ hist' = [hist EXCEPT !.last = "rejected", !.oks = 0]
       ELSE /\ Unused # {}
            /\ LET t == CHOOSE u \in Unused : \A v \in Unused : u <= v IN
                 /\ th' = [th EXCEPT ![t] = [ThreadInit EXCEPT
                              !.pc = "starting", !.n = count, !.delay = delay]]
                 /\ hist' = [hist EXCEPT !.last = "started", !.oks = 0,
                                         !.reset = IF @ = "quiet" THEN "loops" ELSE @]
  /\ with_BS_LOCK
  /\ UNCHANGED <<BATCH_STATE, prices, DB_URL, clock, stopPc, resetPc, call, now>>

\* api.py:333  POST /ingest_batch, after the block: the thread is created and
\* started.  All that is left to the request is to build its answer,
\* ingest_batch_started(t), which writes nothing.
ingest_batch_start(t) ==
  /\ th[t].pc = "starting"
  /\ th' = [th EXCEPT ![t].pc = "spawned"]
  /\ hist' = [hist EXCEPT !.last = IF @ = "started" /\ t = Newest THEN @ ELSE "raced"]
  /\ UNCHANGED <<_BS_LOCK, BATCH_STATE, prices, DB_URL, clock, stopPc, resetPc, call, now>>

\* the ETA computed without looking at the running flag
eta_seconds_unguarded(state) ==
  LET remaining == IF state.target - state.done > 0
                     THEN state.target - state.done ELSE 0
      d == IF state.delay = None THEN 0 ELSE state.delay
  IN IF d > 0 THEN (remaining * d) \div DelayScale ELSE 0

\* api.py:345-347  the ETA of a snapshot: int(remaining * d), the delay d being
\* kept in units of 1/DelayScale s; None counts as 0 (`or 0`, `or 0.0`)
eta_seconds(state) ==
  LET remaining == IF state.target - state.done > 0
                     THEN state.target - state.done ELSE 0
      d == IF state.delay = None THEN 0 ELSE state.delay
  IN IF state.running /\ d > 0 THEN (remaining * d) \div DelayScale ELSE 0

\* api.py:342-348  the response of GET /batch/status: a copy taken under the
\* lock, and its projection
batch_status_response ==
  [status |-> "ok", eta_seconds |-> eta_seconds(BATCH_STATE), state |-> BATCH_STATE]

\* api.py:342  GET /batch/status: nothing is written
batch_status ==
  /\ hist' = [hist EXCEPT !.reset = IF resetPc = "idle" THEN "no" ELSE @]
  /\ with_BS_LOCK
  /\ UNCHANGED <<BATCH_STATE, prices, DB_URL, clock, th, stopPc, resetPc, call, now>>

\* the stop and reset requests that have begun and not yet returned
InProgress == (IF stopPc = "idle" THEN 0 ELSE 1) + (IF resetPc = "idle" THEN 0 ELSE 1)

\* POST /batch/stop whose first statement also forgets the last error
batch_stop_update_clear ==
  /\ stopPc = "idle"
  /\ InProgress < MaxCalls
  /\ _BS_LOCK = Free
  /\ _BS_LOCK' = Stopper
  /\ BATCH_STATE' = [BATCH_STATE EXCEPT !.running = FALSE, !.last_error = NoError]
  /\ stopPc' = "locked"
  /\ hist' = [hist EXCEPT !.last = "stop", !.oks = 0]
  /\ UNCHANGED <<prices, DB_URL, clock, th, resetPc, call, now>>

\* api.py:357-358  POST /batch/stop takes the lock and writes running; it
\* keeps the lock
batch_stop_update ==
  /\ stopPc = "idle"
  /\ InProgress < MaxCalls
  /\ _BS_LOCK = Free
  /\ _BS_LOCK' = Stopper
  /\ BATCH_STATE' = [BATCH_STATE EXCEPT !.running = FALSE]
  /\ stopPc' = "locked"
  /\ hist' = [hist EXCEPT !.last = "stop", !.oks = 0]
  /\ UNCHANGED <<prices, DB_URL, clock, th, resetPc, call, now>>

\* api.py:359  POST /batch/stop, right-hand side: _now_iso() is called and
\* returns; the lock is held, nothing is stored yet
batch_stop_now ==
  /\ stopPc = "locked"
  /\ _BS_LOCK = Stopper
  /\ now = None
  /\ now' = _now_iso
  /\ UNCHANGED <<_BS_LOCK, BATCH_STATE, prices, DB_URL, clock, th, stopPc, resetPc, call, hist>>

\* api.py:359  POST /batch/stop stores the value in updated_at and leaves the
\* locked block
batch_stop_stamp ==
  /\ stopPc = "locked"
  /\ _BS_LOCK = Stopper
  /\ now # None
  /\ _BS_LOCK' = Free
  /\ BATCH_STATE' = [BATCH_STATE EXCEPT !.updated_at = now]
  /\ now' = None
  /\ stopPc' = "unlocked"
  /\ UNCHANGED <<prices, DB_URL, clock, th, resetPc, call, hist>>

\* api.py:360  what POST /batch/stop returns: BATCH_STATE as it is when the
\* response is built, after the lock is released; no lock is taken for it
batch_stop_response == [status |-> "stopping", state |-> BATCH_STATE]

\* api.py:360  POST /batch/stop returns
batch_stop_return ==
  /\ stopPc = "unlocked"
  /\ stopPc' = "idle"
  /\ UNCHANGED <<_BS_LOCK, BATCH_STATE, prices, DB_URL, clock, th, resetPc, call, hist, now>>

\* api.py:369-379  POST /batch/reset takes the lock and builds the argument
\* of update(): _now_iso() is called and returns; nothing is stored yet
batch_reset_now ==
  /\ resetPc = "idle"
  /\ InProgress < MaxCalls
  /\ _BS_LOCK = Free
  /\ _BS_LOCK' = Resetter
  /\ now' = _now_iso
  /\ resetPc' = "locked"
  /\ hist' = [hist EXCEPT !.last = "reset", !.oks = 0]
  /\ UNCHANGED <<BATCH_STATE, prices, DB_URL, clock, th, stopPc, call>>

\* batch_reset that forgets the counters of the last run
batch_reset_update_partial ==
  /\ resetPc = "locked"
  /\ _BS_LOCK = Resetter
  /\ _BS_LOCK' = Free
  /\ BATCH_STATE' = [BATCH_STATE_default EXCEPT !.updated_at = now,
                       !.done = BATCH_STATE.done, !.fail = BATCH_STATE.fail]
  /\ now' = None
  /\ resetPc' = "unlocked"
  /\ hist' = [hist EXCEPT
                !.reset = IF AliveLoops = {} /\ Starting = {} THEN "quiet" ELSE "loops"]
  /\ UNCHANGED <<prices, DB_URL, clock, th, stopPc, call>>

\* api.py:370-381  POST /batch/reset: the one update() call stores every
\* field, updated_at from the value read before, and the locked block ends
batch_reset_update ==
  /\ resetPc = "locked"
  /\ _BS_LOCK = Resetter
  /\ _BS_LOCK' = Free
  /\ BATCH_STATE' = [BATCH_STATE_default EXCEPT !.updated_at = now]
  /\ now' = None
  /\ resetPc' = "unlocked"
  /\ hist' = [hist EXCEPT
                !.reset = IF AliveLoops = {} /\ Starting = {} THEN "quiet" ELSE "loops"]
  /\ UNCHANGED <<prices, DB_URL, clock, th, stopPc, call>>

\* api.py:382  what POST /batch/reset returns: BATCH_STATE as it is when the
\* response is built, after the lock is released; no lock is taken for it
batch_reset_response == [status |-> "reset", state |-> BATCH_STATE]

\* api.py:382  POST /batch/reset returns
batch_reset_return ==
  /\ resetPc = "unlocked"
  /\ resetPc' = "idle"
  /\ UNCHANGED <<_BS_LOCK, BATCH_STATE, prices, DB_URL, clock, th, stopPc, call, hist, now>>

\* api.py:113-118  _do_one_ingest(), run by POST /ingest (api.py:170) and as
\* the background task of POST /ingest_async (api.py:149): a reading stamped at
\* ts, the second in which _normalize_fetch_output ran, is upserted.  A request
\* that stores nothing (the fetch or the upsert raised, the INSERT was
\* swallowed or found the key) changes no variable: it is a stuttering step,
\* not a step of this action.
_do_one_ingest(ts, d, fault) ==
  /\ upsert_price(prices, ts, d, fault).store # prices
  /\ prices' = upsert_price(prices, ts, d, fault).store
  /\ UNCHANGED <<_BS_LOCK, BATCH_STATE, DB_URL, clock, th, stopPc, resetPc, call, hist, now>>

\* ---------------------------------------------------------------- the loop
Goto(t, pc) == [th EXCEPT ![t].pc = pc]

\* api.py:295-302  the arguments of the first _set are evaluated before _set
\* is entered: started_at=_now_iso() is read with no lock held
LoopArgs(t) ==
  /\ th[t].pc = "spawned"
  /\ th' = [th EXCEPT ![t].pc = "init", ![t].started_at = _now_iso]
  /\ UNCHANGED <<_BS_LOCK, BATCH_STATE, prices, DB_URL, clock, stopPc, resetPc, call, hist, now>>

\* api.py:291-292  the first _set takes the lock and updates: the run's
\* initialisation
LoopInit(t) ==
  /\ th[t].pc = "init"
  /\ _BS_LOCK = Free
  /\ _BS_LOCK' = t
  /\ BATCH_STATE' = _set_update(BATCH_STATE,
        [running |-> TRUE, done |-> 0, fail |-> 0, target |-> th[t].n,
         delay |-> th[t].delay, started_at |-> th[t].started_at,
         last_error |-> NoError])
  /\ th' = [th EXCEPT ![t].pc = "init_stamp", ![t].started_at = None]
  /\ UNCHANGED <<prices, DB_URL, clock, stopPc, resetPc, call, hist, now>>

\* top of the for loop with the rest of the iteration placed inside the
\* `with _BS_LOCK:` block: the lock is kept when the iteration begins
LoopCheck_holding(t) ==
  /\ th[t].pc = "check"
  /\ IF th[t].i >= th[t].n
       THEN /\ th' = Goto(t, "final")
            /\ _BS_LOCK' = _BS_LOCK
       ELSE /\ th' = Goto(t, IF BATCH_STATE.running THEN "fetch" ELSE "final")
            /\ _BS_LOCK = Free
            /\ _BS_LOCK' = IF BATCH_STATE.running THEN t ELSE Free
  /\ UNCHANGED <<BATCH_STATE, prices, DB_URL, clock, stopPc, resetPc, call, hist, now>>

\* api.py:305-308  top of the for loop.  With range(n) exhausted the thread
\* goes on to api.py:318 and no lock is taken; otherwise running is read
\* under the lock and the iteration begins or the loop is left (break).
LoopCheck(t) ==
  /\ th[t].pc = "check"
  /\ IF th[t].i >= th[t].n
       THEN /\ th' = Goto(t, "final")
            /\ _BS_LOCK' = _BS_LOCK
       ELSE /\ th' = Goto(t, IF BATCH_STATE.running THEN "fetch" ELSE "final")
            /\ with_BS_LOCK
  /\ UNCHANGED <<BATCH_STATE, prices, DB_URL, clock, stopPc, resetPc, call, hist, now>>

\* api.py:310  fetch_btc_price() returns a float or raises;
\* _normalize_fetch_output stamps the reading.  When it raises, the handler
\* (api.py:315) evaluates BATCH_STATE["fail"] + 1, the argument of _set, with
\* no lock taken (the fetch itself changes nothing).
LoopFetch(t) ==
  /\ th[t].pc = "fetch"
  /\ \/ \E d \in Quotes :
          /\ th' = [th EXCEPT ![t].pc = "persist",
                              ![t].p = _normalize_fetch_output(d)]
          /\ hist' = hist
     \/ /\ th' = [th EXCEPT ![t].pc = "set_fail", ![t].err = Failure,
                            ![t].rd = BATCH_STATE.fail]
        /\ hist' = [hist EXCEPT !.bad[t] = TRUE]
  /\ UNCHANGED <<_BS_LOCK, BATCH_STATE, prices, DB_URL, clock, stopPc, resetPc, call, now>>

\* api.py:311  upsert_price(p["ts_utc"], p["price_usd"]).  When it raises, the
\* handler (api.py:315) evaluates BATCH_STATE["fail"] + 1 with no lock taken
\* (the table is as it was).
LoopPersist(t) ==
  /\ th[t].pc = "persist"
  /\ \E fault \in DbFaults :
       LET r == upsert_price(prices, th[t].p.ts_utc, th[t].p.price_usd, fault) IN
         /\ prices' = r.store
         /\ th' = IF r.raised
                    THEN [th EXCEPT ![t].pc = "set_fail", ![t].err = Failure,
                                    ![t].rd = BATCH_STATE.fail,
                                    ![t].p = ThreadInit.p]
                    ELSE [th EXCEPT ![t].pc = "read_done",
                                    ![t].p = ThreadInit.p]
         /\ hist' = [hist EXCEPT
                       !.bad[t] = (fault # "none"),
                       !.oks = IF hist.last = "started" /\ t = Newest /\ ~r.raised
                                THEN @ + 1 ELSE @]
  /\ UNCHANGED <<_BS_LOCK, BATCH_STATE, DB_URL, clock, stopPc, resetPc, call, now>>

\* api.py:312  after upsert_price has returned, the argument of _set is
\* evaluated with no lock taken: BATCH_STATE["done"] + 1
LoopReadDone(t) ==
  /\ th[t].pc = "read_done"
  /\ th' = [th EXCEPT ![t].pc = "set_done", ![t].rd = BATCH_STATE.done]
  /\ UNCHANGED <<_BS_LOCK, BATCH_STATE, prices, DB_URL, clock, stopPc, resetPc, call, hist, now>>

\* _set(done=..., last_error=None): a success that clears the last error
LoopSetDone_clear(t) ==
  /\ th[t].pc = "set_done"
  /\ _BS_LOCK = Free
  /\ _BS_LOCK' = t
  /\ BATCH_STATE' = _set_update(BATCH_STATE,
                       [done |-> th[t].rd + 1, last_error |-> NoError])
  /\ th' = [th EXCEPT ![t].pc = "done_stamp", ![t].rd = 0]
  /\ hist' = [hist EXCEPT !.bad[t] = FALSE]
  /\ UNCHANGED <<prices, DB_URL, clock, stopPc, resetPc, call, now>>

\* api.py:312, 291-292  _set(done=...) takes the lock and updates
LoopSetDone(t) ==
  /\ th[t].pc = "set_done"
  /\ _BS_LOCK = Free
  /\ _BS_LOCK' = t
  /\ BATCH_STATE' = _set_update(BATCH_STATE, [done |-> th[t].rd + 1])
  /\ th' = [th EXCEPT ![t].pc = "done_stamp", ![t].rd = 0]
  /\ hist' = [hist EXCEPT !.bad[t] = FALSE]
  /\ UNCHANGED <<prices, DB_URL, clock, stopPc, resetPc, call, now>>

\* api.py:315, 291-292  _set(fail=..., last_error=...) takes the lock and updates
LoopSetFail(t) ==
  /\ th[t].pc = "set_fail"
  /\ _BS_LOCK = Free
  /\ _BS_LOCK' = t
  /\ BATCH_STATE' = _set_update(BATCH_STATE,
                       [fail |-> th[t].rd + 1, last_error |-> th[t].err])
  /\ th' = [th EXCEPT ![t].pc = "fail_stamp", ![t].rd = 0, ![t].err = NoError]
  /\ hist' = [hist EXCEPT !.bad[t] = FALSE]
  /\ UNCHANGED <<prices, DB_URL, clock, stopPc, resetPc, call, now>>

\* api.py:316  polite_sleep(delay), then the next element of range(n)
LoopSleep(t) ==
  /\ th[t].pc = "sleep"
  /\ th' = [th EXCEPT ![t].pc = "check", ![t].i = @ + 1]
  /\ UNCHANGED <<_BS_LOCK, BATCH_STATE, prices, DB_URL, clock, stopPc, resetPc, call, hist, now>>

\* the last _set called with no argument: it will only stamp updated_at
LoopFinal_keep(t) ==
  /\ th[t].pc = "final"
  /\ _BS_LOCK = Free
  /\ _BS_LOCK' = t
  /\ BATCH_STATE' = _set_update(BATCH_STATE, [x \in {} |-> FALSE])
  /\ th' = Goto(t, "final_stamp")
  /\ UNCHANGED <<prices, DB_URL, clock, stopPc, resetPc, call, hist, now>>

\* api.py:318, 291-292  _set(running=False) takes the lock and updates
LoopFinal(t) ==
  /\ th[t].pc = "final"
  /\ _BS_LOCK = Free
  /\ _BS_LOCK' = t
  /\ BATCH_STATE' = _set_update(BATCH_STATE, [running |-> FALSE])
  /\ th' = Goto(t, "final_stamp")
  /\ UNCHANGED <<prices, DB_URL, clock, stopPc, resetPc, call, hist, now>>

\* where a thread goes on after the _set it is in
AfterStamp(t) ==
  IF th[t].pc = "init_stamp" THEN Goto(t, "check")
  ELSE IF th[t].pc = "final_stamp"      \* _run_batch returns, the thread ends
    THEN [th EXCEPT ![t] = [ThreadInit EXCEPT !.pc = "exited", !.n = th[t].n,
                                              !.delay = th[t].delay]]
  ELSE Goto(t, "sleep")

\* api.py:293  the second statement of a _set in progress, right-hand side:
\* _now_iso() is called and returns; the lock is held, nothing is stored yet
LoopNow(t) ==
  /\ th[t].pc \in {"init_stamp", "done_stamp", "fail_stamp", "final_stamp"}
  /\ _BS_LOCK = t
  /\ now = None
  /\ now' = _now_iso
  /\ UNCHANGED <<_BS_LOCK, BATCH_STATE, prices, DB_URL, clock, th, stopPc, resetPc, call, hist>>

\* a _set that stamps updated_at and returns with the lock still taken
LoopStamp_holding(t) ==
  /\ th[t].pc \in {"init_stamp", "done_stamp", "fail_stamp", "final_stamp"}
  /\ _BS_LOCK = t
  /\ now # None
  /\ _BS_LOCK' = t
  /\ BATCH_STATE' = _set_stamp(BATCH_STATE)
  /\ now' = None
  /\ th' = AfterStamp(t)
  /\ UNCHANGED <<prices, DB_URL, clock, stopPc, resetPc, call, hist>>

\* api.py:293  the second statement of a _set in progress: the value is
\* stored in updated_at, the locked block ends and _set returns
LoopStamp(t) ==
  /\ th[t].pc \in {"init_stamp", "done_stamp", "fail_stamp", "final_stamp"}
  /\ _BS_LOCK = t
  /\ now # None
  /\ _BS_LOCK' = Free
  /\ BATCH_STATE' = _set_stamp(BATCH_STATE)
  /\ now' = None
  /\ th' = AfterStamp(t)
  /\ UNCHANGED <<prices, DB_URL, clock, stopPc, resetPc, call, hist>>

_run_batch(t) ==
  \/ LoopArgs(t)
  \/ LoopInit(t)
  \/ LoopCheck(t)
  \/ LoopFetch(t)
  \/ LoopPersist(t)
  \/ LoopReadDone(t)
  \/ LoopSetDone(t)
  \/ LoopSetFail(t)
  \/ LoopNow(t)
  \/ LoopStamp(t)
  \/ LoopSleep(t)
  \/ LoopFinal(t)

\* a request is served or a loop thread takes a step
Step ==
  \/ \E count \in Counts, delay \in Delays : ingest_batch(count, delay)
  \/ \E t \in Threads : ingest_batch_start(t)
  \/ batch_status
  \/ batch_stop_update
  \/ batch_stop_now
  \/ batch_stop_stamp
  \/ batch_stop_return
  \/ batch_reset_now
  \/ batch_reset_update
  \/ batch_reset_return
  \/ \E ts \in 0..clock, d \in Quotes, fault \in DbFaults : _do_one_ingest(ts, d, fault)
  \/ \E t \in Threads : _run_batch(t)

Next == Tick \/ Step

Spec == Init /\ [][Next]_vars

\* Behaviours within one second of the clock in which every loop thread
\* gets to run: fetch_btc_price, upsert_price and polite_sleep return, a
\* locked block runs to its end, and a thread that can take a step of
\* _run_batch again and again (it waits for a lock that is released again and
\* again) eventually takes one.  No fairness is asked of the arrival of
\* requests.
SpecFair ==
  /\ Init /\ [][Step]_vars
  /\ \A t \in Threads : SF_vars(_run_batch(t))
  /\ WF_vars(batch_stop_now \/ batch_stop_stamp \/ batch_reset_update)

\* ---------------------------------------------------------------- the store alone
MaxTs == 2           \* timestamps 0..MaxTs are passed to upsert_price directly
Stamps == 0..MaxTs

\* db.py:33  one direct call upsert_price(ts, price), e.g. from _do_one_ingest
\* (api.py:117); call records the arguments and what came of it
UpsertCall(ts, price, fault) ==
  LET r == upsert_price(prices, ts, price, fault) IN
    /\ prices' = r.store
    /\ call' = [ts |-> ts, price |-> price, fault |-> fault,
                dup |-> HasKey(prices, ts), raised |-> r.raised]
    /\ UNCHANGED <<_BS_LOCK, BATCH_STATE, DB_URL, clock, th, stopPc, resetPc, hist, now>>

NextStore == \E ts \in Stamps, price \in Prices, fault \in DbFaults :
               UpsertCall(ts, price, fault)

\* any sequence of upsert_price calls on an initially empty table
SpecStore == Init /\ [][NextStore]_vars

\* ---------------------------------------------------------------- status alone
MaxTarget == 10      \* target and done of the records status is asked about
StatusDelays == {2, 3, 10}           \* 1.0 s, 1.5 s, 5.0 s

\* the records GET /batch/status can find: the all-default one, a record
\* written by a run (the counters may have passed the target, see C2), and a
\* record written by reset and then by a loop that was still counting
StatusStates ==
  {BATCH_STATE_default}
  \cup {[running |-> r, done |-> d, fail |-> 0, target |-> g, delay |-> y,
          started_at |-> 0, updated_at |-> 0, last_error |-> NoError] :
          r \in BOOLEAN, d \in 0..MaxTarget, g \in 1..MaxTarget, y \in StatusDelays}
  \cup {[BATCH_STATE_default EXCEPT !.done = d, !.updated_at = 0] : d \in 0..MaxTarget}

InitStatus ==
  /\ BATCH_STATE \in StatusStates
  /\ _BS_LOCK = Free
  /\ now = None
  /\ prices = {}
  /\ DB_URL \in DbUrls
  /\ clock = 0
  /\ th = [t \in Threads |-> ThreadInit]
  /\ stopPc = "idle"
  /\ resetPc = "idle"
  /\ call = NoCall
  /\ hist = HistInit

\* GET /batch/status that stamps the record as the writing handlers do
batch_status_touch ==
  /\ call' = batch_status_response
  /\ BATCH_STATE' = [BATCH_STATE EXCEPT !.updated_at = _now_iso]
  /\ with_BS_LOCK
  /\ UNCHANGED <<prices, DB_URL, clock, th, stopPc, resetPc, hist, now>>

\* api.py:342-348  GET /batch/status, its answer kept in call
batch_status_answer ==
  /\ call' = batch_status_response
  /\ with_BS_LOCK
  /\ UNCHANGED <<BATCH_STATE, prices, DB_URL, clock, th, stopPc, resetPc, hist, now>>

NextStatus == batch_status_answer

\* one status request on any record
SpecStatus == InitStatus /\ [][NextStatus]_vars


\* ---------------------------------------------------------------- properties
\* the start request that passed its check creates thread t and returns "started"
Spawns(t) == th[t].pc = "starting" /\ th'[t].pc = "spawned"
BeginsIteration(t) == th[t].pc = "check" /\ th'[t].pc = "fetch"
\* t writes done or fail (the update of the _set that closes an iteration)
Counts_(t) == th[t].pc \in {"set_done", "set_fail"} /\ th'[t].pc \in {"done_stamp", "fail_stamp"}
\* t writes the initialisation of its run (the update of its first _set)
Initialises(t) == th[t].pc = "init" /\ th'[t].pc = "init_stamp"
Resets == resetPc = "locked" /\ resetPc' = "unlocked"
Counted(state) == state.done + state.fail
\* t has written the update of its first _set and not yet that of its last
Iterating(t) ==
  th[t].pc \in {"init_stamp", "check", "fetch", "persist", "read_done", "set_done",
                "done_stamp", "set_fail", "fail_stamp", "sleep", "final"}
StopReturned == hist.last = "stop" /\ stopPc = "idle"
Cleared(state) ==
  /\ state.running = FALSE
  /\ state.done = 0
  /\ state.fail = 0
  /\ state.target = 0
  /\ state.delay = None
  /\ state.last_error = NoError

\* C1  At most one _run_batch thread is alive in every reachable state.
\* Fails: ingest_batch only reads running, which the new thread sets later.
C1_AtMostOneLoop == Cardinality(AliveLoops) <= 1

\* C2  done + fail <= target in every reachable state (stated here for the
\* states in which a run has been initialised and not reset, target > 0).
\* Fails: two loops count into the same record.
C2_CounterConservation ==
  BATCH_STATE.target > 0 => BATCH_STATE.done + BATCH_STATE.fail <= BATCH_STATE.target

\* C3  The step in which start returns "started" leaves BATCH_STATE
\* initialised: running, done = fail = 0, target = count, delay = delay,
\* last_error absent.  Fails: the handler writes nothing.
C3_StartedInitializes ==
  [][\A t \in Threads : Spawns(t) =>
        /\ BATCH_STATE'.running
        /\ BATCH_STATE'.done = 0 /\ BATCH_STATE'.fail = 0
        /\ BATCH_STATE'.target = th'[t].n
        /\ BATCH_STATE'.delay = th'[t].delay
        /\ BATCH_STATE'.last_error = NoError]_vars

\* C4  Once stop has returned and as long as no start is called or returns,
\* running is false and no loop begins another iteration.  Fails: a thread
\* created by an earlier start initialises the run after the stop.
C4_GracefulStop ==
  [][/\ StopReturned' => ~BATCH_STATE'.running
     /\ StopReturned /\ StopReturned' => \A t \in Threads : ~BeginsIteration(t)]_vars

\* C5  A start whose locked block finds running set returns already_running
\* with the current BATCH_STATE from inside the block; it changes neither
\* BATCH_STATE nor the table and does not go on to create a thread.
C5_StartWhileRunningNoOp ==
  [][\A count \in Counts, delay \in Delays :
        BATCH_STATE.running /\ ingest_batch(count, delay) =>
          /\ hist'.last = "rejected"
          /\ ingest_batch_already_running.status = "already_running"
          /\ ingest_batch_already_running.state = BATCH_STATE'
          /\ Starting' = Starting
          /\ UNCHANGED <<BATCH_STATE, th, prices>>]_vars

\* C5 witness: a start was rejected while a loop is iterating
C5_Witness ==
  /\ hist.last = "rejected"
  /\ BATCH_STATE.running
  /\ \E t \in Threads : th[t].pc = "fetch"

\* C6 as claimed: once reset has returned, the next status answers the cleared
\* record.  Fails: a loop that is still alive writes after the reset.
C6_ResetClears ==
  hist.reset # "no" /\ resetPc = "idle" /\ ENABLED batch_status =>
    Cleared(batch_status_response.state)

\* C6 amended: once reset has returned, no loop thread having existed and no
\* start request having been in progress at the reset, and no start having
\* been called since, the next status answers the cleared record.
C6_QuietResetClears ==
  hist.reset = "quiet" /\ resetPc = "idle" /\ ENABLED batch_status =>
    Cleared(batch_status_response.state)

\* C6 witness: a reset returned after a run that had stored a reading ended
C6_Witness ==
  /\ hist.reset = "quiet" /\ resetPc = "idle" /\ ENABLED batch_status
  /\ \E t \in Threads : th[t].pc = "exited"
  /\ prices # {}

\* C7  The _set that closes an iteration whose fetch or persist failed adds one
\* to fail, leaves done and records last_error, and a _set that has written
\* fail stamps updated_at.  Fails: the SQLite branch of upsert_price swallows
\* the error of the INSERT.
C7_FailureCounted ==
  [][\A t \in Threads :
        /\ hist.bad[t] /\ Counts_(t) =>
              /\ BATCH_STATE'.fail = BATCH_STATE.fail + 1
              /\ BATCH_STATE'.done = BATCH_STATE.done
              /\ BATCH_STATE'.last_error # NoError
        /\ th[t].pc = "fail_stamp" /\ th'[t].pc # "fail_stamp" =>
              /\ now \in 0..clock
              /\ BATCH_STATE'.updated_at = now
              /\ th'[t].pc = "sleep"]_vars

\* C8  When the thread of a run has ended and no start, stop or reset was
\* called since that run's own start: running is false, done is the number of
\* its successful iterations and done + fail = target = count.  Fails: the loop
\* of an earlier, stopped run is still alive and counts into the new run.
C8_RunCompletes ==
  \A t \in Threads :
    th[t].pc = "exited" /\ hist.last = "started" /\ t = Newest =>
      /\ ~BATCH_STATE.running
      /\ BATCH_STATE.done = hist.oks
      /\ BATCH_STATE.done + BATCH_STATE.fail = BATCH_STATE.target
      /\ BATCH_STATE.target = th[t].n

\* C9  After the only run of the process has ended undisturbed (PostgreSQL
\* backend, where no database error is swallowed), every iteration counted in
\* done has added a row of its own: the table holds at least done rows (more
\* when POST /ingest stored readings too).  Fails: two iterations in the same
\* clock second produce the same key.
C9_RecordsEqualDone ==
  /\ DB_URL = "postgresql"
  /\ Newest = 1 /\ th[1].pc = "exited" /\ hist.last = "started"
  => Cardinality(prices) >= BATCH_STATE.done

\* C10  A first upsert of a key stores the row; an upsert of a key already in
\* the table (database reachable) raises nothing and leaves the table as it
\* was; no key ever has two rows.
C10_IdempotentUpsert ==
  [][/\ \A r1, r2 \in prices' : r1.ts_utc = r2.ts_utc => r1 = r2
     /\ call' # call /\ call'.fault = "none" =>
          /\ ~call'.raised
          /\ IF call'.dup
               THEN prices' = prices
               ELSE prices' = prices \cup
                      {[ts_utc |-> call'.ts, price_usd |-> call'.price]}]_vars

\* C10 witness: a second upsert of a timestamp with another price was made and
\* the row still holds the first price
C10_Witness ==
  /\ call.dup /\ call.fault = "none" /\ ~call.raised
  /\ \E r \in prices : r.ts_utc = call.ts /\ r.price_usd # call.price

\* C11  The eta_seconds of a status answer is floor(max(0, target - done) *
\* delay) when the record is running with a positive delay, and 0 otherwise
\* (the floor e of x / DelayScale is the integer with e * DelayScale <= x <
\* (e + 1) * DelayScale).
C11_EtaCorrect ==
  "eta_seconds" \in DOMAIN call =>
    LET st == call.state
        remaining == IF st.target > st.done THEN st.target - st.done ELSE 0
        e == call.eta_seconds
    IN IF st.running /\ st.delay # None /\ st.delay > 0
         THEN /\ e * DelayScale <= remaining * st.delay
              /\ remaining * st.delay < (e + 1) * DelayScale
         ELSE e = 0

\* C11 witness: target = 10, done = 4, delay = 5.0 s, running: answered 30; the
\* same record not running, and a product that is not whole, are covered by
\* C11_EtaCorrect on the other records of StatusStates
C11_Witness ==
  /\ "eta_seconds" \in DOMAIN call
  /\ call.state.running /\ call.state.target = 10 /\ call.state.done = 4
  /\ call.state.delay = 5 * DelayScale
  /\ call.eta_seconds = 30

\* C12  A status step leaves BATCH_STATE as it was, whatever the record; on the
\* all-default record it answers eta_seconds = 0 and the default fields.
C12_StatusPureRead ==
  [][batch_status_answer =>
       /\ BATCH_STATE' = BATCH_STATE
       /\ call'.state = BATCH_STATE
       /\ BATCH_STATE = BATCH_STATE_default =>
            call' = [status |-> "ok", eta_seconds |-> 0, state |-> BATCH_STATE_default]]_vars

\* C12 witness: status was answered on the all-default record, which is still
\* all-default
C12_Witness ==
  /\ "eta_seconds" \in DOMAIN call
  /\ call.status = "ok" /\ call.eta_seconds = 0
  /\ call.state = BATCH_STATE_default
  /\ BATCH_STATE = BATCH_STATE_default

\* C13  The snapshot that stop returns reports running = false, whatever is
\* written concurrently.  Fails: the response is built from BATCH_STATE after
\* the lock is released, and a loop's first _set may come in between.
C13_StopSnapshotNotRunning ==
  stopPc = "unlocked" => ~batch_stop_response.state.running

\* C14  The increment of done / fail is one atomic read-modify-write: the
\* counting step of the only loop the process ever spawned adds exactly one to
\* done + fail.  Fails: BATCH_STATE["done"] + 1 is evaluated before _set takes
\* the lock, and a reset may be written in between.
C14_AtomicIncrement ==
  [][\A t \in Threads : Threads \ Unused = {t} /\ Counts_(t) =>
        Counted(BATCH_STATE') = Counted(BATCH_STATE) + 1]_vars

\* C15  The loop of a run leaves its for loop before count iterations only
\* after a stop or reset called since that run's start: with no call since the
\* start, the loop that reaches its last _set has done all its iterations.
\* Fails: the last _set(running=False) of an earlier loop ends the new run.
C15_EarlyExitOnlyByStop ==
  \A t \in Threads :
    th[t].pc = "final" /\ t = Newest /\ hist.last = "started" => th[t].i = th[t].n

\* C16  running is true only while some loop thread is between its first _set
\* and its last: running is false whenever no loop is executing.
C16_RunningImpliesLoop ==
  BATCH_STATE.running => \E t \in Threads : Iterating(t)

\* C16 witness: a run went through all its iterations undisturbed, its thread
\* has ended, no loop is left and running is false
C16_Witness ==
  /\ AliveLoops = {} /\ Starting = {} /\ \E t \in Threads : th[t].pc = "exited"
  /\ hist.last = "started" /\ hist.oks = MaxCount
  /\ ~BATCH_STATE.running

\* C17  Within one run (from a loop's first _set, as long as no reset and no
\* other first _set is written) done + fail never decreases and every counting
\* step adds exactly one.  Fails: a second loop alive writes its stale count.
C17_CountedOncePerIteration ==
  [][BATCH_STATE.target > 0 /\ BATCH_STATE'.target > 0
       /\ ~(\E u \in Threads : Initialises(u)) =>
        /\ Counted(BATCH_STATE') >= Counted(BATCH_STATE)
        /\ \A t \in Threads : Counts_(t) =>
              Counted(BATCH_STATE') = Counted(BATCH_STATE) + 1]_vars

\* C18  Every loop thread that was spawned ends; it never goes beyond count
\* iterations; its last step is the stamp of the _set that wrote running =
\* false, which leaves running false and updated_at at the clock.
C18_LoopTerminates ==
  /\ \A t \in Threads : (th[t].pc = "spawned") ~> (th[t].pc = "exited")
  /\ [](\A t \in Threads : th[t].i <= th[t].n)
  /\ [][\A t \in Threads : th[t].pc # "exited" /\ th'[t].pc = "exited" =>
          /\ th[t].pc = "final_stamp"
          /\ ~BATCH_STATE'.running
          /\ now \in 0..clock
          /\ BATCH_STATE'.updated_at = now]_vars

\* C18 witness: every loop that was spawned has ended, the last one cut short
\* by POST /batch/stop
C18_Witness ==
  /\ \A t \in Threads : th[t].pc = "exited"
  /\ hist.last = "stop"
  /\ ~BATCH_STATE.running
  /\ Counted(BATCH_STATE) < BATCH_STATE.target

\* C19  Whenever started_at and updated_at are both present in what a caller
\* is shown, updated_at >= started_at: stated for the snapshot that stop and
\* reset return.  Fails: _set writes started_at and updated_at in two
\* statements, and the response of stop is built with no lock taken, so it can
\* show the new started_at next to the old updated_at.
C19_UpdatedAtMonotone ==
  /\ stopPc = "unlocked" =>
        (batch_stop_response.state.started_at # None
           /\ batch_stop_response.state.updated_at # None
         => batch_stop_response.state.updated_at >= batch_stop_response.state.started_at)
  /\ resetPc = "unlocked" =>
        (batch_reset_response.state.started_at # None
           /\ batch_reset_response.state.updated_at # None
         => batch_reset_response.state.updated_at >= batch_reset_response.state.started_at)

\* C20  Whenever a loop is in fetch_btc_price, in upsert_price or in
\* polite_sleep it does not hold _BS_LOCK; when it is the only loop thread and
\* no stop is inside its locked block, a status, a stop and a reset request can
\* each take the lock and run their block at once.
C20_LockFreeWhileBlocking ==
  \A t \in Threads : th[t].pc \in {"fetch", "persist", "sleep"} =>
    /\ _BS_LOCK # t
    /\ AliveLoops = {t} /\ stopPc # "locked" /\ resetPc # "locked" =>
          /\ ENABLED batch_status
          /\ stopPc = "idle" /\ InProgress < MaxCalls => ENABLED batch_stop_update
          /\ resetPc = "idle" /\ InProgress < MaxCalls => ENABLED batch_reset_now

\* C20 witness: the only loop alive passed its check while running was true
\* and is in upsert_price; a stop has written running = false since
C20_Witness ==
  \E t \in Threads :
    /\ AliveLoops = {t} /\ th[t].pc = "persist"
    /\ hist.last = "stop" /\ stopPc = "unlocked"
    /\ ~BATCH_STATE.running

\* C21  A status answer never mixes a run's initialisation with values of
\* before it: while the loop of the run started last has initialised the
\* record and counted nothing yet, no call having been made since its start,
\* a status answer that shows running shows done = fail = 0, no last_error and
\* that run's target.  Fails: the loop of an earlier run writes the count it
\* read before the initialisation.
C21_NoMixedSnapshot ==
  \A t \in Threads :
    /\ t = Newest /\ hist.last = "started"
    /\ th[t].pc \in {"check", "fetch", "persist"} /\ th[t].i = 0
    /\ ENABLED batch_status
    /\ batch_status_response.state.running
    => /\ batch_status_response.state.done = 0
       /\ batch_status_response.state.fail = 0
       /\ batch_status_response.state.last_error = NoError
       /\ batch_status_response.state.target = th[t].n

\* C22  last_error, once present, is removed only by a loop's first _set or
\* by reset; the _set of a successful iteration leaves it as it was.
C22_LastErrorKept ==
  [][/\ BATCH_STATE.last_error # NoError /\ BATCH_STATE'.last_error = NoError =>
          Resets \/ \E t \in Threads : Initialises(t)
     /\ \A t \in Threads : LoopSetDone(t) =>
          BATCH_STATE'.last_error = BATCH_STATE.last_error]_vars

\* C22 witness: the only run of the process has counted one failure and one
\* success, its thread is in the sleep of its second iteration, and the
\* error is still reported
C22_Witness ==
  /\ Threads \ Unused = {1} /\ hist.last = "started"
  /\ th[1].pc = "sleep" /\ th[1].i = 1
  /\ BATCH_STATE.done = 1 /\ BATCH_STATE.fail = 1
  /\ BATCH_STATE.last_error = Failure

\* C23  After a reset that has returned, with a single loop thread in the
\* process, which had initialised its run before the reset (the target is
\* still the reset's 0), and no start or stop since: done + fail is at most
\* one, the one iteration the loop may complete after the reset.  Fails: the
\* loop writes the count it read before the reset, plus one.
C23_ResetThenFreshCount ==
  /\ hist.last = "reset" /\ resetPc = "idle"
  /\ Cardinality(Threads \ Unused) = 1
  /\ BATCH_STATE.target = 0
  => Counted(BATCH_STATE) <= 1

\* C24  The locked block of stop writes running = false, then updated_at, and
\* nothing else; when running was false already, updated_at alone changes.
C24_StopFrame ==
  [][/\ batch_stop_update =>
          /\ BATCH_STATE'.running = FALSE
          /\ \A f \in DOMAIN BATCH_STATE \ {"running"} :
               BATCH_STATE'[f] = BATCH_STATE[f]
          /\ ~BATCH_STATE.running => BATCH_STATE' = BATCH_STATE
     /\ batch_stop_now => BATCH_STATE' = BATCH_STATE
     /\ batch_stop_stamp =>
          /\ BATCH_STATE'.running = FALSE
          /\ now \in 0..clock
          /\ BATCH_STATE'.updated_at = now
          /\ \A f \in DOMAIN BATCH_STATE \ {"updated_at"} :
               BATCH_STATE'[f] = BATCH_STATE[f]]_vars

\* C24 witness: stop has written the record of a run that had counted a
\* failure and is still iterating; counters, target and last_error are there
C24_Witness ==
  /\ hist.last = "stop" /\ stopPc = "unlocked"
  /\ ~BATCH_STATE.running
  /\ BATCH_STATE.fail = 1 /\ BATCH_STATE.last_error = Failure
  /\ BATCH_STATE.target = MaxCount
  /\ \E t \in Threads : th[t].pc = "sleep" /\ th[t].i = 0

====
